---------------------------- MODULE Spec2Model ----------------------------
(***************************************************************************)
(* Model of the malayalam-corpus-cleaner: the text helpers, the semantic   *)
(* chunker (text_cleaner/chunker.py), the document numbering of            *)
(* chunk_documents and the five-stage cleaning_pipeline                    *)
(* (text_cleaner/pipeline.py).                                             *)
(*                                                                         *)
(* A text is a sequence of one-character strings.  The characters stand    *)
(* for the classes the code distinguishes:                                 *)
(*   "m"  a letter of the Malayalam block U+0D00..U+0D7F                   *)
(*   "a"  a non-whitespace character outside that block (Latin letter)     *)
(*   "."  the sentence delimiter                                           *)
(*   " ", "\n", "\t"  whitespace                                           *)
(*   "<", ">"  the tag brackets                                            *)
(***************************************************************************)
EXTENDS Integers, Sequences, FiniteSets, TLC

SP == " "
NL == "\n"
TAB == "\t"

\* str.isspace() / the whitespace of str.strip() and str.split()
IsSpace(c) == c \in {SP, NL, TAB}

\* ------------------------------------------------------------------------
\* Python string primitives used by the code

RECURSIVE lstrip(_)
lstrip(s) == IF s = <<>> THEN <<>>
             ELSE IF IsSpace(Head(s)) THEN lstrip(Tail(s)) ELSE s

RECURSIVE rstrip(_)
rstrip(s) == IF s = <<>> THEN <<>>
             ELSE IF IsSpace(s[Len(s)]) THEN rstrip(SubSeq(s, 1, Len(s) - 1)) ELSE s

\* str.strip()
strip(s) == rstrip(lstrip(s))

\* the first non-whitespace run of s (s starts with a non-whitespace character)
RECURSIVE first_word(_)
first_word(s) == IF s = <<>> \/ IsSpace(Head(s)) THEN <<>>
                 ELSE <<Head(s)>> \o first_word(Tail(s))

\* str.split() with no separator: the maximal runs of non-whitespace
RECURSIVE split_ws(_)
split_ws(s) ==
    LET t == lstrip(s) IN
    IF t = <<>> THEN <<>>
    ELSE LET w == first_word(t) IN
         <<w>> \o split_ws(SubSeq(t, Len(w) + 1, Len(t)))

\* len(text.split())
word_count(s) == Len(split_ws(s))

\* whether sep occurs in s at position i
occurs_at(s, sep, i) ==
    /\ i + Len(sep) - 1 <= Len(s)
    /\ SubSeq(s, i, i + Len(sep) - 1) = sep

\* str.find(sep) + 1, or 0 when sep does not occur
find_sep(s, sep) ==
    LET hits == {i \in 1..Len(s) : occurs_at(s, sep, i)} IN
    IF hits = {} THEN 0 ELSE CHOOSE i \in hits : \A j \in hits : i <= j

\* str.split(sep): cut at the non-overlapping occurrences of sep, left to right
RECURSIVE split_sep(_, _)
split_sep(s, sep) ==
    LET i == find_sep(s, sep) IN
    IF i = 0 THEN <<s>>
    ELSE <<SubSeq(s, 1, i - 1)>> \o split_sep(SubSeq(s, i + Len(sep), Len(s)), sep)

\* sep.join(parts)
RECURSIVE join(_, _)
join(sep, parts) ==
    IF parts = <<>> THEN <<>>
    ELSE IF Len(parts) = 1 THEN parts[1]
    ELSE parts[1] \o sep \o join(sep, Tail(parts))

RECURSIVE concat(_)
concat(parts) == IF parts = <<>> THEN <<>> ELSE Head(parts) \o concat(Tail(parts))

\* ------------------------------------------------------------------------
\* chunker.py

PARA_SEP == <<NL, NL>>
SENT_SEP == <<SP>>

\* [p.strip() for p in text.split('\n\n') if p.strip()]
RECURSIVE strip_nonempty(_)
strip_nonempty(ps) ==
    IF ps = <<>> THEN <<>>
    ELSE (IF strip(Head(ps)) = <<>> THEN <<>> ELSE <<strip(Head(ps))>>)
         \o strip_nonempty(Tail(ps))

paragraphs_of(text) == strip_nonempty(split_sep(text, PARA_SEP))

\* sentence_tokenize.sentence_split(paragraph, lang='ml') of the indicnlp
\* library: its delimiter segmentation.  The paragraph is cut after each
\* sentence delimiter, each piece is stripped and the empty ones are dropped.
RECURSIVE cut_after_delim(_, _)
cut_after_delim(s, acc) ==
    IF s = <<>> THEN (IF acc = <<>> THEN <<>> ELSE <<acc>>)
    ELSE IF Head(s) = "." THEN <<acc \o <<".">> >> \o cut_after_delim(Tail(s), <<>>)
    ELSE cut_after_delim(Tail(s), acc \o <<Head(s)>>)

sentence_split(paragraph) == strip_nonempty(cut_after_delim(strip(paragraph), <<>>))

\* the greedy rule's test: current + next > target_size
would_exceed_at_budget(current_words, next_words, target_size) ==
    current_words + next_words >= target_size

would_exceed(current_words, next_words, target_size) ==
    current_words + next_words > target_size

\* A completed chunk keeps the list it was joined from: sep.join(parts).
Chunk(sep, parts) == [sep |-> sep, parts |-> parts]
chunk_text(c) == join(c.sep, c.parts)

\* if buffer: chunks.append(sep.join(buffer))
flush(chunks, sep, buffer) ==
    IF buffer = <<>> THEN chunks ELSE Append(chunks, Chunk(sep, buffer))

\* The loop state of _semantic_chunking: the completed chunks and the pending
\* paragraph buffer with its running word count.
ChunkerInit == [chunks |-> <<>>, cur |-> <<>>, cur_words |-> 0]

\* one iteration of "for sentence in sentences"
sentence_step_keep_buffer(st, sentence, target_size) ==
    [st EXCEPT !.cur = Append(st.cur, sentence),
               !.cur_words = st.cur_words + word_count(sentence)]

sentence_step(st, sentence, target_size) ==
    LET sentence_words == word_count(sentence) IN
    IF would_exceed(st.cur_words, sentence_words, target_size)
    THEN [chunks |-> flush(st.chunks, SENT_SEP, st.cur),
          cur |-> <<sentence>>,
          cur_words |-> sentence_words]
    ELSE [st EXCEPT !.cur = Append(st.cur, sentence),
                    !.cur_words = st.cur_words + sentence_words]

RECURSIVE sentence_loop(_, _, _)
sentence_loop(st, sentences, target_size) ==
    IF sentences = <<>> THEN st
    ELSE sentence_loop(sentence_step(st, Head(sentences), target_size),
                       Tail(sentences), target_size)

\* lines 23-46: the paragraph is larger than target_size
oversized_paragraph_no_flush(st, paragraph, target_size) ==
    LET s == sentence_loop([chunks |-> st.chunks, cur |-> <<>>, cur_words |-> 0],
                           sentence_split(paragraph), target_size)
    IN  [chunks |-> flush(s.chunks, SENT_SEP, s.cur),
         cur |-> st.cur, cur_words |-> st.cur_words]

oversized_paragraph(st, paragraph, target_size) ==
    LET flushed == flush(st.chunks, PARA_SEP, st.cur)
        s == sentence_loop([chunks |-> flushed, cur |-> <<>>, cur_words |-> 0],
                           sentence_split(paragraph), target_size)
    IN  [chunks |-> flush(s.chunks, SENT_SEP, s.cur),
         cur |-> <<>>, cur_words |-> 0]

\* lines 48-55: the paragraph fits a chunk of its own
fitting_paragraph(st, paragraph, target_size) ==
    LET paragraph_words == word_count(paragraph) IN
    IF would_exceed(st.cur_words, paragraph_words, target_size)
    THEN [chunks |-> flush(st.chunks, PARA_SEP, st.cur),
          cur |-> <<paragraph>>,
          cur_words |-> paragraph_words]
    ELSE [st EXCEPT !.cur = Append(st.cur, paragraph),
                    !.cur_words = st.cur_words + paragraph_words]

\* one iteration of "for paragraph in paragraphs"
paragraph_step(st, paragraph, target_size) ==
    IF word_count(paragraph) > target_size
    THEN oversized_paragraph(st, paragraph, target_size)
    ELSE fitting_paragraph(st, paragraph, target_size)

RECURSIVE paragraph_loop(_, _, _)
paragraph_loop(st, paragraphs, target_size) ==
    IF paragraphs = <<>> THEN st
    ELSE paragraph_loop(paragraph_step(st, Head(paragraphs), target_size),
                        Tail(paragraphs), target_size)

\* lines 57-60: the trailing flush; the chunks with the lists they join
final_chunks(st) == flush(st.chunks, PARA_SEP, st.cur)

semantic_chunks(text, target_size) ==
    final_chunks(paragraph_loop(ChunkerInit, paragraphs_of(text), target_size))

\* _semantic_chunking(text, target_size): the list of chunk texts
_semantic_chunking(text, target_size) ==
    LET cs == semantic_chunks(text, target_size) IN
    [i \in 1..Len(cs) |-> chunk_text(cs[i])]


\* ------------------------------------------------------------------------
\* cleaning.py

IsMalayalam(c) == c = "m"
IsDigit(c) == c \in {"0", "1", "2", "3", "4", "5", "6", "7", "8", "9"}

\* re.sub(r'<[^>]*?>', '', text): every "<" with a ">" after it is deleted
\* together with everything up to the first such ">"
RECURSIVE remove_innermost_tags(_)
remove_innermost_tags(text) ==
    IF text = <<>> THEN <<>>
    ELSE IF Head(text) = "<"
         THEN LET close == find_sep(Tail(text), <<">">>)
                  open == find_sep(Tail(text), <<"<">>)
              IN  IF close = 0 \/ (open # 0 /\ open < close)
                  THEN <<"<">> \o remove_innermost_tags(Tail(text))
                  ELSE remove_innermost_tags(SubSeq(text, close + 2, Len(text)))
         ELSE <<Head(text)>> \o remove_innermost_tags(Tail(text))

RECURSIVE remove_tags(_)
remove_tags(text) ==
    IF text = <<>> THEN <<>>
    ELSE IF Head(text) = "<"
         THEN LET close == find_sep(Tail(text), <<">">>) IN
              IF close = 0 THEN <<"<">> \o remove_tags(Tail(text))
              ELSE remove_tags(SubSeq(text, close + 2, Len(text)))
         ELSE <<Head(text)>> \o remove_tags(Tail(text))

\* re.sub(r'\n+', '\n', text)
RECURSIVE collapse_newline_pairs(_)
collapse_newline_pairs(text) ==
    IF text = <<>> THEN <<>>
    ELSE IF Head(text) = NL /\ Len(text) > 1 /\ text[2] = NL
         THEN <<NL>> \o collapse_newline_pairs(Tail(Tail(text)))
         ELSE <<Head(text)>> \o collapse_newline_pairs(Tail(text))

RECURSIVE collapse_newlines(_)
collapse_newlines(text) ==
    IF text = <<>> THEN <<>>
    ELSE IF Head(text) = NL /\ Len(text) > 1 /\ text[2] = NL
         THEN collapse_newlines(Tail(text))
         ELSE <<Head(text)>> \o collapse_newlines(Tail(text))

\* re.sub(r'[ \t]+', ' ', text)
RECURSIVE collapse_blanks(_)
collapse_blanks(text) ==
    IF text = <<>> THEN <<>>
    ELSE IF Head(text) \in {SP, TAB}
         THEN IF Len(text) > 1 /\ text[2] \in {SP, TAB}
              THEN collapse_blanks(Tail(text))
              ELSE <<SP>> \o collapse_blanks(Tail(text))
         ELSE <<Head(text)>> \o collapse_blanks(Tail(text))

remove_extra_whitespace(text) == collapse_blanks(collapse_newlines(strip(text)))

\* text.split('\n', 1)
split_first_line(text) ==
    LET i == find_sep(text, <<NL>>) IN
    IF i = 0 THEN <<text>>
    ELSE <<SubSeq(text, 1, i - 1), SubSeq(text, i + 1, Len(text))>>

remove_repeated_title(text, title) ==
    LET first_line == strip(split_first_line(text)[1]) IN
    IF first_line = title
    THEN (IF find_sep(text, <<NL>>) # 0 THEN split_first_line(text)[2] ELSE <<>>)
    ELSE text

\* in-language characters times 100 >= threshold (in percent) times the
\* non-whitespace characters: malayalam_chars / total_chars >= threshold
filter_by_ratio_above(text, threshold_pct) ==
    LET nonspace == {i \in 1..Len(text) : ~IsSpace(text[i])}
        malayalam == {i \in nonspace : IsMalayalam(text[i])}
    IN  IF text = <<>> THEN FALSE
        ELSE IF Cardinality(nonspace) = 0 THEN FALSE
        ELSE Cardinality(malayalam) * 100 > threshold_pct * Cardinality(nonspace)

filter_by_ratio(text, threshold_pct) ==
    LET nonspace == {i \in 1..Len(text) : ~IsSpace(text[i])}
        malayalam == {i \in nonspace : IsMalayalam(text[i])}
    IN  IF text = <<>> THEN FALSE
        ELSE IF Cardinality(nonspace) = 0 THEN FALSE
        ELSE Cardinality(malayalam) * 100 >= threshold_pct * Cardinality(nonspace)

filter_by_word_count(text, min_words) == word_count(text) >= min_words

\* re.sub(r'[^\u0D00-\u0D7F\s\d.,?!-]', '', text)
RECURSIVE strict_mal_chars(_)
strict_mal_chars(text) ==
    IF text = <<>> THEN <<>>
    ELSE (IF \/ IsMalayalam(Head(text)) \/ IsSpace(Head(text)) \/ IsDigit(Head(text))
             \/ Head(text) \in {".", ",", "?", "!", "-"}
          THEN <<Head(text)>> ELSE <<>>)
         \o strict_mal_chars(Tail(text))

\* The names pipeline.py calls that cleaning.py does not define under that
\* name.  filter_by_count is the minimum-word-count predicate and
\* strict_mal_char the strict character filter; remove_wiki_markup removes
\* wiki markup, of which the modelled alphabet has none.
filter_by_count(text, min_words) == filter_by_word_count(text, min_words)
strict_mal_char(text) == strict_mal_chars(text)
remove_wiki_markup(text) == text

\* ------------------------------------------------------------------------
\* State

VARIABLES
    \* one call of _semantic_chunking
    ck_pc,            \* "idle" | "loop" | "done"
    ck_text,          \* the text argument
    ck_target,        \* the target_size argument
    ck_todo,          \* the paragraphs the for loop has not reached yet
    ck_st,            \* chunks, current_chunk_paragraphs, current_chunk_words
    ck_prev,          \* the loop state before the last iteration
    ck_para,          \* the paragraph of the last iteration
    ck_result         \* the returned chunks

ck_vars == <<ck_pc, ck_text, ck_target, ck_todo, ck_st, ck_prev, ck_para, ck_result>>

VARIABLES
    \* one run of cleaning_pipeline
    pc,                   \* the stage the run is in
    config,               \* the configuration
    heap,                 \* the record objects (dicts); the lists hold indices
    documents,            \* the input list
    chunked_documents,    \* the list chunk_documents returned
    chunks_to_score,
    scored_documents,
    final_documents,
    discarded_documents,
    seen_hashes,
    pos,                  \* the position of the running for loop
    normalized_texts      \* history: each document's text as Stage 1 left it

pl_vars == <<pc, config, heap, documents, chunked_documents, chunks_to_score,
             scored_documents, final_documents, discarded_documents,
             seen_hashes, pos, normalized_texts>>

VARIABLES
    \* main.py around the call of cleaning_pipeline
    input_documents,      \* history: the document dicts as main passed them
    cleaned_documents,    \* what main received from cleaning_pipeline
    output_lines          \* the lines save_to_jsonl wrote

main_vars == <<input_documents, cleaned_documents, output_lines>>

VARIABLES
    \* calls of one cleaning.py function, each on the result of the last
    cl_op,            \* the function called, "none" before the first call
    cl_text,          \* the text argument of the first call
    cl_title,         \* the title argument of remove_repeated_title
    cl_threshold,     \* the threshold argument of filter_by_ratio, in percent
    cl_result,        \* the texts returned so far
    cl_passes         \* the verdict filter_by_ratio returned, if it was called

cl_vars == <<cl_op, cl_text, cl_title, cl_threshold, cl_result, cl_passes>>

VARIABLES
    \* one call of llm_scorer._score_with_api or _score_with_local, from the
    \* point where the scorer is initialised
    sc_pc,             \* "idle" | "docs" | "chunks" | "attempts" | "done"
    sc_provider,       \* "api" | "local"
    sc_max_retries,    \* api_config max_retries
    sc_target,         \* config chunk_target_size
    sc_documents,      \* the documents argument, scored in place
    sc_doc,            \* the position of the loop over the documents
    sc_chunks,         \* the scoring units of the document still to do
    sc_chunk_results,  \* chunk_results
    sc_attempt,        \* attempt, the position of the retry loop
    sc_calls           \* history: the model calls made for each document

sc_vars == <<sc_pc, sc_provider, sc_max_retries, sc_target, sc_documents, sc_doc,
             sc_chunks, sc_chunk_results, sc_attempt, sc_calls>>

vars == <<ck_vars, pl_vars, cl_vars, main_vars, sc_vars>>

\* ------------------------------------------------------------------------
\* Python dicts and the optional llm_score

HasField(rec, k) == k \in DOMAIN rec

\* rec[k] = v
SetField(rec, k, v) == [x \in DOMAIN rec \cup {k} |-> IF x = k THEN v ELSE rec[x]]

\* None is the empty sequence and the integer n is <<n>>
None == <<>>
Some(n) == <<n>>

\* rec.get('llm_score')
get_llm_score(rec) == IF HasField(rec, "llm_score") THEN rec.llm_score ELSE None

PipelineIdle ==
    /\ pc = "idle" /\ config = [none |-> TRUE] /\ heap = <<>> /\ documents = <<>>
    /\ chunked_documents = <<>> /\ chunks_to_score = <<>>
    /\ scored_documents = <<>> /\ final_documents = <<>>
    /\ discarded_documents = <<>> /\ seen_hashes = {} /\ pos = 0
    /\ normalized_texts = <<>>
    /\ input_documents = <<>> /\ cleaned_documents = <<>> /\ output_lines = <<>>

CleanIdle ==
    /\ cl_op = "idle" /\ cl_text = <<>> /\ cl_title = <<>> /\ cl_threshold = 0
    /\ cl_result = <<>> /\ cl_passes = <<>>

ScorerIdle ==
    /\ sc_pc = "idle" /\ sc_provider = "none" /\ sc_max_retries = 0 /\ sc_target = 0
    /\ sc_documents = <<>> /\ sc_doc = 0 /\ sc_chunks = <<>>
    /\ sc_chunk_results = <<>> /\ sc_attempt = 0 /\ sc_calls = <<>>

\* ------------------------------------------------------------------------
\* chunker.py: chunk_documents

\* str(n) for n >= 0
RECURSIVE str_int(_)
str_int(n) == IF n < 10 THEN <<ToString(n)>>
              ELSE str_int(n \div 10) \o <<ToString(n % 10)>>

RECURSIVE zeros(_)
zeros(n) == IF n <= 0 THEN <<>> ELSE <<"0">> \o zeros(n - 1)

\* f"{doc_index:0{doc_id_width}d}" with doc_id_width = len(str(total_docs))
doc_id_unpadded(doc_index, total_docs) == str_int(doc_index)

format_doc_id(doc_index, total_docs) ==
    LET doc_id_width == Len(str_int(total_docs))
        ds == str_int(doc_index)
    IN  zeros(doc_id_width - Len(ds)) \o ds

\* doc.get('filename', f'document_{doc_id}'): ingestion sets no filename
default_doc_name(doc_id) == <<"document_">> \o doc_id

\* lines 74-79: the document dict itself becomes the chunk record
annotate_counting_documents(doc, doc_index, total_docs) ==
    [x \in DOMAIN doc \cup {"doc_id", "doc_name", "doc_source_path",
                            "total_chunks", "chunk_id"} |->
        CASE x = "doc_id" -> format_doc_id(doc_index, total_docs)
          [] x = "doc_name" -> default_doc_name(format_doc_id(doc_index, total_docs))
          [] x = "doc_source_path" -> <<>>
          [] x = "total_chunks" -> total_docs
          [] x = "chunk_id" -> 1
          [] OTHER -> doc[x]]

annotate_document(doc, doc_index, total_docs) ==
    [x \in DOMAIN doc \cup {"doc_id", "doc_name", "doc_source_path",
                            "total_chunks", "chunk_id"} |->
        CASE x = "doc_id" -> format_doc_id(doc_index, total_docs)
          [] x = "doc_name" -> default_doc_name(format_doc_id(doc_index, total_docs))
          [] x = "doc_source_path" -> <<>>
          [] x = "total_chunks" -> 1
          [] x = "chunk_id" -> 1
          [] OTHER -> doc[x]]

\* lines 92-107: the chunk records made from one document
chunk_records_from_zero(doc, doc_index, total_docs, target_size) ==
    LET doc_id == format_doc_id(doc_index, total_docs)
        chunks == _semantic_chunking(doc.text, target_size)
    IN  [chunk_index \in 1..Len(chunks) |->
            [doc_id |-> doc_id,
             doc_name |-> default_doc_name(doc_id),
             doc_source_path |-> <<>>,
             total_chunks |-> Len(chunks),
             chunk_id |-> chunk_index - 1,
             text |-> chunks[chunk_index]]]

chunk_records(doc, doc_index, total_docs, target_size) ==
    LET doc_id == format_doc_id(doc_index, total_docs)
        chunks == _semantic_chunking(doc.text, target_size)
    IN  [chunk_index \in 1..Len(chunks) |->
            [doc_id |-> doc_id,
             doc_name |-> default_doc_name(doc_id),
             doc_source_path |-> <<>>,
             total_chunks |-> Len(chunks),
             chunk_id |-> chunk_index,
             text |-> chunks[chunk_index]]]

\* ------------------------------------------------------------------------
\* pipeline.py: cleaning_pipeline

\* lines 22-30 with remove_extra_whitespace called before remove_tags
clean_text_whitespace_first(doc, cfg) ==
    LET t1 == remove_wiki_markup(doc.text)
        t2 == remove_repeated_title(t1, doc.title)
        t3 == remove_tags(remove_extra_whitespace(t2))
    IN  IF cfg.use_aggressive_char_removal THEN strict_mal_char(t3) ELSE t3

\* lines 22-30: Stage 1 on one document
clean_text(doc, cfg) ==
    LET t1 == remove_wiki_markup(doc.text)
        t2 == remove_repeated_title(t1, doc.title)
        t3 == remove_tags(t2)
        t4 == IF cfg.use_aggressive_char_removal THEN strict_mal_char(t3) ELSE t3
    IN  remove_extra_whitespace(t4)

passes_malayalam_filter(text, cfg) == filter_by_ratio(text, cfg.malayalam_ratio_threshold)
passes_word_count_filter(text, cfg) == filter_by_count(text, cfg.min_word_count)

\* ", ".join(reason)
RECURSIVE join_str(_, _)
join_str(sep, parts) ==
    IF parts = <<>> THEN ""
    ELSE IF Len(parts) = 1 THEN parts[1]
    ELSE parts[1] \o sep \o join_str(sep, Tail(parts))

\* lines 55-61
prefilter_reason_first_only(text, cfg) ==
    IF ~passes_malayalam_filter(text, cfg) THEN "failed malayalam ratio"
    ELSE "failed word count"

prefilter_reason_count_only(text, cfg) ==
    join_str(", ",
        IF ~passes_word_count_filter(text, cfg) THEN <<"failed word count">> ELSE <<>>)

prefilter_reason(text, cfg) ==
    join_str(", ",
        (IF ~passes_malayalam_filter(text, cfg) THEN <<"failed malayalam ratio">> ELSE <<>>)
        \o (IF ~passes_word_count_filter(text, cfg) THEN <<"failed word count">> ELSE <<>>))

STAGE3 == "Stage 3: Pre-filtering"
STAGE5_SCORE == "Stage 5: LLM score filtering"
STAGE5_DEDUP == "Stage 5: Deduplication"

\* line 96
fails_score_inclusive(llm_score, score_threshold) ==
    llm_score # None /\ llm_score[1] <= score_threshold

fails_score(llm_score, score_threshold) ==
    llm_score # None /\ llm_score[1] < score_threshold

\* line 97: f"failed llm score ({llm_score})"
score_reason(llm_score) == "failed llm score (" \o ToString(llm_score[1]) \o ")"

\* line 102: hashlib.sha256(text.encode('utf-8')).hexdigest(), taken as free
\* of collisions: equal digests exactly for equal texts
text_hash(text) == <<"sha256">> \o text

\* ------------------------------------------------------------------------
\* Inputs of the chunker runs

\* at most this many blank-line separated blocks in an input text
MaxParas == 3

\* the blocks an input text is put together from
Blocks ==
    { <<"m", ".">>,                                               \* 1 word
      <<"m", SP, "m", ".">>,                                     \* 2 words
      <<"m", SP, "m", ".", SP, "m", SP, "m", ".">>,              \* 4 = 2 + 2
      <<"m", ".", SP, "m", SP, "m", SP, "m", ".">>,              \* 4 = 1 + 3
      <<"m", ".", "m", ".", SP, "m", SP, "m">>,                  \* 3 words, 3 sentences
      <<SP, "m", NL, "m", SP>>,                                  \* 2 words, to strip
      <<NL, "m", SP, "m", SP, "m", SP, "m">>,                    \* 4 words, one sentence
      <<SP>> }                                                   \* blank

BlockLists == UNION {[1..n -> Blocks] : n \in 0..MaxParas}

InputTexts == {join(PARA_SEP, bl) : bl \in BlockLists}

\* chunking.target_size values
TargetSizes == {1, 2, 3, 10}

ChunkIdle ==
    /\ ck_pc = "idle" /\ ck_text = <<>> /\ ck_target = 0 /\ ck_todo = <<>>
    /\ ck_st = ChunkerInit /\ ck_prev = ChunkerInit /\ ck_para = <<>>
    /\ ck_result = <<>>

\* lines 15-18: the call and the split into paragraphs
ChunkInit ==
    /\ PipelineIdle
    /\ CleanIdle
    /\ ScorerIdle
    /\ ck_pc = "loop"
    /\ ck_text \in InputTexts
    /\ ck_target \in TargetSizes
    /\ ck_todo = paragraphs_of(ck_text)
    /\ ck_st = ChunkerInit /\ ck_prev = ChunkerInit /\ ck_para = <<>>
    /\ ck_result = <<>>

ChunkIterate ==
    /\ ck_st' = paragraph_step(ck_st, Head(ck_todo), ck_target)
    /\ ck_prev' = ck_st
    /\ ck_para' = Head(ck_todo)
    /\ ck_todo' = Tail(ck_todo)
    /\ UNCHANGED <<ck_pc, ck_text, ck_target, ck_result, pl_vars, cl_vars, main_vars, sc_vars>>

\* lines 23-46
ChunkOversized ==
    /\ ck_pc = "loop" /\ ck_todo # <<>>
    /\ word_count(Head(ck_todo)) > ck_target
    /\ ChunkIterate

\* lines 48-52
ChunkFlushAndStart ==
    /\ ck_pc = "loop" /\ ck_todo # <<>>
    /\ word_count(Head(ck_todo)) <= ck_target
    /\ would_exceed(ck_st.cur_words, word_count(Head(ck_todo)), ck_target)
    /\ ChunkIterate

\* lines 53-55
ChunkAppend ==
    /\ ck_pc = "loop" /\ ck_todo # <<>>
    /\ word_count(Head(ck_todo)) <= ck_target
    /\ ~would_exceed(ck_st.cur_words, word_count(Head(ck_todo)), ck_target)
    /\ ChunkIterate

\* lines 57-60
ChunkReturn ==
    /\ ck_pc = "loop" /\ ck_todo = <<>>
    /\ ck_result' = final_chunks(ck_st)
    /\ ck_pc' = "done"
    /\ UNCHANGED <<ck_text, ck_target, ck_todo, ck_st, ck_prev, ck_para, pl_vars, cl_vars, main_vars, sc_vars>>

ChunkNext == ChunkOversized \/ ChunkFlushAndStart \/ ChunkAppend \/ ChunkReturn

SpecChunk == ChunkInit /\ [][ChunkNext]_vars


\* ------------------------------------------------------------------------
\* One run of cleaning_pipeline

\* at most this many input documents in a pipeline run
MaxDocs == 2

\* llm_scorer.score_threshold default (scorer_config.get('score_threshold', 5))
DefaultScoreThreshold == 5

\* the input documents: title and text as ingestion delivers them, and one
\* document that comes with a score
InputDocs ==
    { [title |-> <<"m">>,       \* the title is repeated, a blank line, a tag
       text  |-> <<"m", NL, "m", SP, "m", ".", NL, NL, "<", "a", ">", NL,
                   "m", SP, "m", ".">>],
      [title |-> <<"a">>,                       \* a tag and irregular spacing
       text  |-> <<"<", "a", ">", "m", SP, "m", ".", SP, SP, "m", SP, "m", ".">>],
      [title |-> <<"a">>, text |-> <<"a", SP, "a", SP, "m">>],   \* off-language
      [title |-> <<"a">>, text |-> <<"m">>],                      \* too short
      [title |-> <<"a">>, text |-> <<"a", SP, "m", SP, "m">>],    \* mixed script
      [title |-> <<"a">>, text |-> <<"a">>],                      \* fails both
      [title |-> <<"a">>, text |-> <<>>],                         \* empty
      [title |-> <<"a">>, text |-> <<"m", SP, "m">>,              \* scored before
       llm_score |-> Some(DefaultScoreThreshold - 1), llm_reason |-> "scored earlier"] }

Configs ==
    [chunking_enabled : BOOLEAN,
     target_size : {2},
     use_aggressive_char_removal : BOOLEAN,
     malayalam_ratio_threshold : {0, 50},
     min_word_count : {2},
     llm_enabled : BOOLEAN,
     provider : {"api", "local", "other"},
     score_threshold : {DefaultScoreThreshold}]

\* the scores the quality model may give a chunk
ModelScores == {DefaultScoreThreshold - 1, DefaultScoreThreshold}

\* lines 13-15, with the arguments of the call
Init ==
    /\ ChunkIdle
    /\ CleanIdle
    /\ ScorerIdle
    /\ pc = "stage1"
    /\ config \in {c \in Configs : c.llm_enabled \/ c.provider = "api"}
    /\ \E n \in 0..MaxDocs : heap \in [1..n -> InputDocs]
    /\ documents = [k \in 1..Len(heap) |-> k]
    /\ input_documents = heap
    /\ cleaned_documents = <<>>
    /\ output_lines = <<>>
    /\ chunked_documents = <<>>
    /\ chunks_to_score = <<>>
    /\ scored_documents = <<>>
    /\ final_documents = <<>>
    /\ discarded_documents = <<>>
    /\ seen_hashes = {}
    /\ pos = 0
    /\ normalized_texts = <<>>

\* lines 21-30: Stage 1 rewrites every document's text in place
Stage1 ==
    /\ pc = "stage1"
    /\ heap' = [k \in 1..Len(heap) |->
                   SetField(heap[k], "text", clean_text(heap[k], config))]
    /\ normalized_texts' = [k \in 1..Len(heap) |-> clean_text(heap[k], config)]
    /\ pc' = "stage2"
    /\ pos' = 1
    /\ UNCHANGED <<sc_vars, cl_vars, main_vars, ck_vars, config, documents, chunked_documents,
                   chunks_to_score, scored_documents, final_documents,
                   discarded_documents, seen_hashes>>

\* chunker.py lines 74-79: chunking disabled, one loop iteration
Stage2KeepDocument ==
    /\ pc = "stage2" /\ ~config.chunking_enabled
    /\ pos <= Len(documents)
    /\ heap' = [heap EXCEPT ![documents[pos]] =
                   annotate_document(heap[documents[pos]], pos, Len(documents))]
    /\ pos' = pos + 1
    /\ UNCHANGED <<sc_vars, cl_vars, main_vars, ck_vars, normalized_texts, pc, config, documents,
                   chunked_documents, chunks_to_score, scored_documents,
                   final_documents, discarded_documents, seen_hashes>>

\* chunker.py lines 91-107: chunking enabled, one loop iteration
Stage2ChunkDocument ==
    /\ pc = "stage2" /\ config.chunking_enabled
    /\ pos <= Len(documents)
    /\ LET recs == chunk_records(heap[documents[pos]], pos, Len(documents),
                                 config.target_size)
       IN  /\ heap' = heap \o recs
           /\ chunked_documents' =
                 chunked_documents \o [k \in 1..Len(recs) |-> Len(heap) + k]
    /\ pos' = pos + 1
    /\ UNCHANGED <<sc_vars, cl_vars, main_vars, ck_vars, normalized_texts, pc, config, documents,
                   chunks_to_score, scored_documents, final_documents,
                   discarded_documents, seen_hashes>>

\* chunker.py lines 81 and 121: chunk_documents returns
Stage2Return ==
    /\ pc = "stage2"
    /\ pos > Len(documents)
    /\ chunked_documents' =
          IF config.chunking_enabled THEN chunked_documents ELSE documents
    /\ pc' = "stage3"
    /\ pos' = 1
    /\ UNCHANGED <<sc_vars, cl_vars, main_vars, ck_vars, normalized_texts, config, heap, documents,
                   chunks_to_score, scored_documents, final_documents,
                   discarded_documents, seen_hashes>>

\* lines 41-53: the chunk passes both predicates
Stage3Pass ==
    /\ pc = "stage3" /\ pos <= Len(chunked_documents)
    /\ LET chunk == chunked_documents[pos] IN
       /\ passes_malayalam_filter(heap[chunk].text, config)
       /\ passes_word_count_filter(heap[chunk].text, config)
       /\ chunks_to_score' = Append(chunks_to_score, chunk)
    /\ pos' = pos + 1
    /\ UNCHANGED <<sc_vars, cl_vars, main_vars, ck_vars, normalized_texts, pc, config, heap, documents,
                   chunked_documents, scored_documents, final_documents,
                   discarded_documents, seen_hashes>>

\* lines 54-63: the chunk fails a predicate
Stage3DiscardAndKeep ==
    /\ pc = "stage3" /\ pos <= Len(chunked_documents)
    /\ LET chunk == chunked_documents[pos] IN
       /\ ~(/\ passes_malayalam_filter(heap[chunk].text, config)
            /\ passes_word_count_filter(heap[chunk].text, config))
       /\ heap' = [heap EXCEPT ![chunk] =
                      SetField(SetField(heap[chunk], "discard_reason",
                                        prefilter_reason(heap[chunk].text, config)),
                               "discard_stage", STAGE3)]
       /\ discarded_documents' = Append(discarded_documents, chunk)
       /\ chunks_to_score' = Append(chunks_to_score, chunk)
    /\ pos' = pos + 1
    /\ UNCHANGED <<sc_vars, cl_vars, main_vars, ck_vars, normalized_texts, pc, config, documents,
                   chunked_documents, scored_documents, final_documents,
                   seen_hashes>>

Stage3Discard ==
    /\ pc = "stage3" /\ pos <= Len(chunked_documents)
    /\ LET chunk == chunked_documents[pos] IN
       /\ ~(/\ passes_malayalam_filter(heap[chunk].text, config)
            /\ passes_word_count_filter(heap[chunk].text, config))
       /\ heap' = [heap EXCEPT ![chunk] =
                      SetField(SetField(heap[chunk], "discard_reason",
                                        prefilter_reason(heap[chunk].text, config)),
                               "discard_stage", STAGE3)]
       /\ discarded_documents' = Append(discarded_documents, chunk)
    /\ pos' = pos + 1
    /\ UNCHANGED <<sc_vars, cl_vars, main_vars, ck_vars, normalized_texts, pc, config, documents,
                   chunked_documents, chunks_to_score, scored_documents,
                   final_documents, seen_hashes>>

\* line 64: the Stage 3 loop is over
Stage3Done ==
    /\ pc = "stage3" /\ pos > Len(chunked_documents)
    /\ pc' = "stage4"
    /\ UNCHANGED <<sc_vars, cl_vars, main_vars, ck_vars, config, heap, documents, chunked_documents,
                   chunks_to_score, scored_documents, final_documents,
                   discarded_documents, seen_hashes, pos, normalized_texts>>

\* lines 79-86: scoring disabled
Stage4DisabledOverwrite ==
    /\ pc = "stage4" /\ ~config.llm_enabled
    /\ scored_documents' = chunks_to_score
    /\ heap' = [k \in 1..Len(heap) |->
                  IF \E j \in 1..Len(chunks_to_score) : chunks_to_score[j] = k
                  THEN SetField(SetField(heap[k], "llm_score", None),
                                "llm_reason", "LLM scoring disabled")
                  ELSE heap[k]]
    /\ pc' = "stage5"
    /\ pos' = 1
    /\ UNCHANGED <<sc_vars, cl_vars, main_vars, ck_vars, normalized_texts, config, documents,
                   chunked_documents, chunks_to_score, final_documents,
                   discarded_documents, seen_hashes>>

Stage4Disabled ==
    /\ pc = "stage4" /\ ~config.llm_enabled
    /\ scored_documents' = chunks_to_score
    /\ heap' = [k \in 1..Len(heap) |->
                  IF (\E j \in 1..Len(chunks_to_score) : chunks_to_score[j] = k)
                     /\ ~HasField(heap[k], "llm_score")
                  THEN SetField(SetField(heap[k], "llm_score", None),
                                "llm_reason", "LLM scoring disabled")
                  ELSE heap[k]]
    /\ pc' = "stage5"
    /\ pos' = 1
    /\ UNCHANGED <<sc_vars, cl_vars, main_vars, ck_vars, normalized_texts, config, documents,
                   chunked_documents, chunks_to_score, final_documents,
                   discarded_documents, seen_hashes>>

\* llm_scorer.py lines 206-217, 108-110, 159-160: nothing to score, an unknown
\* provider, or the scorer cannot be initialised: the chunks come back as
\* they went in
Stage4Unscored ==
    /\ pc = "stage4" /\ config.llm_enabled
    /\ scored_documents' = chunks_to_score
    /\ pc' = "stage5"
    /\ pos' = 1
    /\ UNCHANGED <<sc_vars, cl_vars, main_vars, ck_vars, normalized_texts, config, heap, documents,
                   chunked_documents, chunks_to_score, final_documents,
                   discarded_documents, seen_hashes>>

\* llm_scorer.py lines 211-214: the scorer is initialised and its loop starts
Stage4StartScoring ==
    /\ pc = "stage4" /\ config.llm_enabled
    /\ config.provider \in {"api", "local"}
    /\ chunks_to_score # <<>>
    /\ pc' = "scoring"
    /\ pos' = 1
    /\ UNCHANGED <<sc_vars, cl_vars, main_vars, ck_vars, normalized_texts, config, heap, documents,
                   chunked_documents, chunks_to_score, scored_documents,
                   final_documents, discarded_documents, seen_hashes>>

\* llm_scorer.py lines 114-147 and 164-198: one document of the scorer's loop
Stage4ScoreOne ==
    /\ pc = "scoring" /\ pos <= Len(chunks_to_score)
    /\ LET doc == chunks_to_score[pos] IN
       IF strip(heap[doc].text) = <<>>
       THEN heap' = [heap EXCEPT ![doc] =
                        SetField(SetField(heap[doc], "llm_score", Some(1)),
                                 "llm_reason", "Empty text content")]
       ELSE \E score \in ModelScores :
               heap' = [heap EXCEPT ![doc] =
                           SetField(SetField(heap[doc], "llm_score", Some(score)),
                                    "llm_reason", "reason of the lowest unit")]
    /\ pos' = pos + 1
    /\ UNCHANGED <<sc_vars, cl_vars, main_vars, ck_vars, normalized_texts, pc, config, documents,
                   chunked_documents, chunks_to_score, scored_documents,
                   final_documents, discarded_documents, seen_hashes>>

\* llm_scorer.py lines 149 and 200, pipeline.py line 77
Stage4ScoringDone ==
    /\ pc = "scoring" /\ pos > Len(chunks_to_score)
    /\ scored_documents' = chunks_to_score
    /\ pc' = "stage5"
    /\ pos' = 1
    /\ UNCHANGED <<sc_vars, cl_vars, main_vars, ck_vars, normalized_texts, config, heap, documents,
                   chunked_documents, chunks_to_score, final_documents,
                   discarded_documents, seen_hashes>>

\* lines 96-100 with the hash recorded before the score is looked at
Stage5ScoreDiscardRecorded ==
    /\ pc = "stage5" /\ pos <= Len(scored_documents)
    /\ LET doc == scored_documents[pos]
           llm_score == get_llm_score(heap[doc])
       IN  /\ fails_score(llm_score, config.score_threshold)
           /\ heap' = [heap EXCEPT ![doc] =
                          SetField(SetField(heap[doc], "discard_reason",
                                            score_reason(llm_score)),
                                   "discard_stage", STAGE5_SCORE)]
           /\ discarded_documents' = Append(discarded_documents, doc)
           /\ seen_hashes' = seen_hashes \cup {text_hash(heap[doc].text)}
    /\ pos' = pos + 1
    /\ UNCHANGED <<sc_vars, cl_vars, main_vars, ck_vars, normalized_texts, pc, config, documents,
                   chunked_documents, chunks_to_score, scored_documents,
                   final_documents>>

\* lines 96-100: the score is below the threshold
Stage5ScoreDiscard ==
    /\ pc = "stage5" /\ pos <= Len(scored_documents)
    /\ LET doc == scored_documents[pos]
           llm_score == get_llm_score(heap[doc])
       IN  /\ fails_score(llm_score, config.score_threshold)
           /\ heap' = [heap EXCEPT ![doc] =
                          SetField(SetField(heap[doc], "discard_reason",
                                            score_reason(llm_score)),
                                   "discard_stage", STAGE5_SCORE)]
           /\ discarded_documents' = Append(discarded_documents, doc)
    /\ pos' = pos + 1
    /\ UNCHANGED <<sc_vars, cl_vars, main_vars, ck_vars, normalized_texts, pc, config, documents,
                   chunked_documents, chunks_to_score, scored_documents,
                   final_documents, seen_hashes>>

\* lines 102-106: the text is new
Stage5AcceptUnrecorded ==
    /\ pc = "stage5" /\ pos <= Len(scored_documents)
    /\ LET doc == scored_documents[pos] IN
       /\ ~fails_score(get_llm_score(heap[doc]), config.score_threshold)
       /\ text_hash(heap[doc].text) \notin seen_hashes
       /\ final_documents' = Append(final_documents, doc)
    /\ pos' = pos + 1
    /\ UNCHANGED <<sc_vars, cl_vars, main_vars, ck_vars, normalized_texts, pc, config, heap, documents,
                   chunked_documents, chunks_to_score, scored_documents,
                   discarded_documents, seen_hashes>>

Stage5Accept ==
    /\ pc = "stage5" /\ pos <= Len(scored_documents)
    /\ LET doc == scored_documents[pos] IN
       /\ ~fails_score(get_llm_score(heap[doc]), config.score_threshold)
       /\ text_hash(heap[doc].text) \notin seen_hashes
       /\ seen_hashes' = seen_hashes \cup {text_hash(heap[doc].text)}
       /\ final_documents' = Append(final_documents, doc)
    /\ pos' = pos + 1
    /\ UNCHANGED <<sc_vars, cl_vars, main_vars, ck_vars, normalized_texts, pc, config, heap, documents,
                   chunked_documents, chunks_to_score, scored_documents,
                   discarded_documents>>

\* lines 107-110: the text was seen before
Stage5Duplicate ==
    /\ pc = "stage5" /\ pos <= Len(scored_documents)
    /\ LET doc == scored_documents[pos] IN
       /\ ~fails_score(get_llm_score(heap[doc]), config.score_threshold)
       /\ text_hash(heap[doc].text) \in seen_hashes
       /\ heap' = [heap EXCEPT ![doc] =
                      SetField(SetField(heap[doc], "discard_reason",
                                        "duplicate content"),
                               "discard_stage", STAGE5_DEDUP)]
       /\ discarded_documents' = Append(discarded_documents, doc)
    /\ pos' = pos + 1
    /\ UNCHANGED <<sc_vars, cl_vars, main_vars, ck_vars, normalized_texts, pc, config, documents,
                   chunked_documents, chunks_to_score, scored_documents,
                   final_documents, seen_hashes>>

\* line 133: return final_documents, discarded_documents
Stage5Return ==
    /\ pc = "stage5" /\ pos > Len(scored_documents)
    /\ pc' = "done"
    /\ UNCHANGED <<sc_vars, cl_vars, main_vars, ck_vars, config, heap, documents, chunked_documents,
                   chunks_to_score, scored_documents, final_documents,
                   discarded_documents, seen_hashes, pos, normalized_texts>>

\* Python values handed to the output sink: a dict (a heap object), or a
\* list or a tuple of such values
PyDict(ref) == [py |-> "dict", ref |-> ref]
PyList(items) == [py |-> "list", items |-> items]
PyTuple(items) == [py |-> "tuple", items |-> items]

\* the list of the dicts refs points to
dict_list(refs) == PyList([j \in 1..Len(refs) |-> PyDict(refs[j])])

\* json.dumps(value): a dict becomes a JSON object with the dict's members,
\* a list or tuple a JSON array of its dumped items
RECURSIVE json_dumps(_, _)
json_dumps(value, h) ==
    IF value.py = "dict"
    THEN [json |-> "object", members |-> h[value.ref]]
    ELSE [json |-> "array",
          elements |-> [j \in 1..Len(value.items) |-> json_dumps(value.items[j], h)]]

\* formatting.py lines 22-26: one line per item of the iterated argument
save_to_jsonl(docs, h) ==
    [j \in 1..Len(docs.items) |-> json_dumps(docs.items[j], h)]

\* main.py lines 67-70: main keeps what cleaning_pipeline returned, the pair
\* of line 133, and passes it to save_to_jsonl; main calls the pipeline only
\* when documents were ingested (lines 63-65)
MainSave ==
    /\ pc = "done" /\ documents # <<>>
    /\ cleaned_documents' =
          PyTuple(<<dict_list(final_documents), dict_list(discarded_documents)>>)
    /\ output_lines' = save_to_jsonl(cleaned_documents', heap)
    /\ pc' = "saved"
    /\ UNCHANGED <<sc_vars, cl_vars, ck_vars, input_documents, normalized_texts, config, heap,
                   documents, chunked_documents, chunks_to_score, scored_documents,
                   final_documents, discarded_documents, seen_hashes, pos>>

Next ==
    \/ Stage1
    \/ Stage2KeepDocument \/ Stage2ChunkDocument \/ Stage2Return
    \/ Stage3Pass \/ Stage3Discard \/ Stage3Done
    \/ Stage4Disabled \/ Stage4Unscored \/ Stage4StartScoring
    \/ Stage4ScoreOne \/ Stage4ScoringDone
    \/ Stage5ScoreDiscard \/ Stage5Accept \/ Stage5Duplicate \/ Stage5Return
    \/ MainSave

Spec == Init /\ [][Next]_vars

\* ------------------------------------------------------------------------
\* chunk_documents on larger collections: the numbering of the documents

\* at most this many documents in a numbering run
MaxNumberedDocs == 11

\* the state in which cleaning_pipeline calls chunk_documents (line 35), for
\* documents of one short normalized text each
NumberingInit ==
    /\ ChunkIdle
    /\ CleanIdle
    /\ ScorerIdle
    /\ pc = "stage2"
    /\ config \in {c \in Configs : /\ ~c.llm_enabled /\ c.provider = "api"
                                  /\ ~c.use_aggressive_char_removal
                                  /\ c.malayalam_ratio_threshold = 50}
    /\ \E n \in 0..MaxNumberedDocs :
          heap = [k \in 1..n |-> [title |-> <<"a">>, text |-> <<"m", SP, "m">>]]
    /\ documents = [k \in 1..Len(heap) |-> k]
    /\ input_documents = heap
    /\ cleaned_documents = <<>>
    /\ output_lines = <<>>
    /\ normalized_texts = [k \in 1..Len(heap) |-> heap[k].text]
    /\ chunked_documents = <<>>
    /\ chunks_to_score = <<>>
    /\ scored_documents = <<>>
    /\ final_documents = <<>>
    /\ discarded_documents = <<>>
    /\ seen_hashes = {}
    /\ pos = 1

NumberingNext == Stage2KeepDocument \/ Stage2ChunkDocument \/ Stage2Return

SpecNumbering == NumberingInit /\ [][NumberingNext]_vars

\* ------------------------------------------------------------------------
\* llm_scorer.py: the scoring units

\* len(tokenizer.encode(s)) of the gemma tokenizer: the begin-of-sequence
\* token and one token for each word
token_count(s) == 1 + word_count(s)

\* lines 63-71: one iteration of "for sentence in sentences"
token_sentence_step(st, sentence, target_size) ==
    LET sentence_tokens == token_count(sentence) IN
    IF would_exceed(st.cur_words, sentence_tokens, target_size)
    THEN [chunks |-> flush(st.chunks, SENT_SEP, st.cur),
          cur |-> <<sentence>>,
          cur_words |-> sentence_tokens]
    ELSE [st EXCEPT !.cur = Append(st.cur, sentence),
                    !.cur_words = st.cur_words + sentence_tokens]

RECURSIVE token_sentence_loop(_, _, _)
token_sentence_loop(st, sentences, target_size) ==
    IF sentences = <<>> THEN st
    ELSE token_sentence_loop(token_sentence_step(st, Head(sentences), target_size),
                             Tail(sentences), target_size)

\* lines 53-82: one iteration of "for paragraph in paragraphs"
token_paragraph_step(st, paragraph, target_size) ==
    LET paragraph_tokens == token_count(paragraph) IN
    IF paragraph_tokens > target_size
    THEN LET flushed == flush(st.chunks, PARA_SEP, st.cur)
             s == token_sentence_loop(
                      [chunks |-> flushed, cur |-> <<>>, cur_words |-> 0],
                      sentence_split(paragraph), target_size)
         IN  [chunks |-> flush(s.chunks, SENT_SEP, s.cur),
              cur |-> <<>>, cur_words |-> 0]
    ELSE IF would_exceed(st.cur_words, paragraph_tokens, target_size)
    THEN [chunks |-> flush(st.chunks, PARA_SEP, st.cur),
          cur |-> <<paragraph>>,
          cur_words |-> paragraph_tokens]
    ELSE [st EXCEPT !.cur = Append(st.cur, paragraph),
                    !.cur_words = st.cur_words + paragraph_tokens]

RECURSIVE token_paragraph_loop(_, _, _)
token_paragraph_loop(st, paragraphs, target_size) ==
    IF paragraphs = <<>> THEN st
    ELSE token_paragraph_loop(token_paragraph_step(st, Head(paragraphs), target_size),
                              Tail(paragraphs), target_size)

\* llm_scorer._semantic_chunking(text, tokenizer, target_size)
scorer_semantic_chunking(text, target_size) ==
    LET cs == final_chunks(token_paragraph_loop(ChunkerInit, paragraphs_of(text),
                                                target_size))
    IN  [i \in 1..Len(cs) |-> chunk_text(cs[i])]

\* ------------------------------------------------------------------------
\* llm_scorer.py: _score_with_api and _score_with_local

\* at most this many documents in a scorer run
MaxScoredDocs == 1

\* the largest max_retries setting
MaxRetries == 2

\* the texts of the documents to score: empty, blank, one unit, two
\* paragraphs that make two units, a large paragraph cut between sentences
ScoredTexts ==
    { <<>>,
      <<SP, NL>>,
      <<"m", SP, "m", ".">>,
      <<"m", SP, "m", ".", NL, NL, "m", SP, "m", ".">>,
      <<"m", SP, "m", ".", SP, "m", SP, "m", SP, "m", ".">> }

\* the values of "score" a response of the model may hold
ResponseScores == {0, 3, 8, 11}

\* lines 112 and 162: the scorer is initialised, the loop over the documents
\* starts
ScorerInit ==
    /\ ChunkIdle
    /\ PipelineIdle
    /\ CleanIdle
    /\ sc_pc = "docs"
    /\ sc_provider \in {"api", "local"}
    /\ sc_max_retries \in (IF sc_provider = "api" THEN 0..MaxRetries ELSE {0})
    /\ sc_target \in {3}
    /\ \E n \in 0..MaxScoredDocs :
          sc_documents \in [1..n -> [text : ScoredTexts]]
    /\ sc_doc = 1
    /\ sc_chunks = <<>>
    /\ sc_chunk_results = <<>>
    /\ sc_attempt = 0
    /\ sc_calls = [k \in 1..Len(sc_documents) |-> 0]

\* doc['llm_score'], doc['llm_reason'] = score, reason
set_score(doc, score, reason) ==
    SetField(SetField(doc, "llm_score", Some(score)), "llm_reason", reason)

\* the number of the scoring unit that is the head of sc_chunks
unit_index ==
    Len(scorer_semantic_chunking(sc_documents[sc_doc].text, sc_target))
        - Len(sc_chunks) + 1

\* the reason the model's response gives for the current unit
response_reason == "reason for unit " \o ToString(unit_index)

\* the last result with the lowest score
max_index_min_result(chunk_results) ==
    LET i == CHOOSE i \in 1..Len(chunk_results) :
                /\ \A j \in 1..Len(chunk_results) :
                      chunk_results[i].score <= chunk_results[j].score
                /\ \A j \in (i + 1)..Len(chunk_results) :
                      chunk_results[j].score > chunk_results[i].score
    IN  chunk_results[i]

\* min(chunk_results, key=lambda x: x['score']): the first result with the
\* lowest score
min_result(chunk_results) ==
    LET i == CHOOSE i \in 1..Len(chunk_results) :
                /\ \A j \in 1..Len(chunk_results) :
                      chunk_results[i].score <= chunk_results[j].score
                /\ \A j \in 1..(i - 1) :
                      chunk_results[j].score > chunk_results[i].score
    IN  chunk_results[i]

\* lines 115-116 and 165-166: a document without text
ScoreEmptyText ==
    /\ sc_pc = "docs" /\ sc_doc <= Len(sc_documents)
    /\ strip(sc_documents[sc_doc].text) = <<>>
    /\ sc_documents' = [sc_documents EXCEPT ![sc_doc] =
                            set_score(@, 1, "Empty text content")]
    /\ sc_doc' = sc_doc + 1
    /\ UNCHANGED <<sc_pc, sc_provider, sc_max_retries, sc_target, sc_chunks,
                   sc_chunk_results, sc_attempt, sc_calls,
                   ck_vars, pl_vars, cl_vars, main_vars>>

\* lines 118-119 and 168-169: the document is cut into scoring units
ScoreStartDocument ==
    /\ sc_pc = "docs" /\ sc_doc <= Len(sc_documents)
    /\ strip(sc_documents[sc_doc].text) # <<>>
    /\ sc_chunks' = scorer_semantic_chunking(sc_documents[sc_doc].text, sc_target)
    /\ sc_chunk_results' = <<>>
    /\ sc_pc' = "chunks"
    /\ UNCHANGED <<sc_provider, sc_max_retries, sc_target, sc_documents, sc_doc,
                   sc_attempt, sc_calls, ck_vars, pl_vars, cl_vars, main_vars>>

\* lines 121-125: the next unit; range(max_retries) is empty for 0
ApiStartChunk ==
    /\ sc_pc = "chunks" /\ sc_provider = "api" /\ sc_chunks # <<>>
    /\ IF sc_max_retries = 0
       THEN sc_chunks' = Tail(sc_chunks) /\ UNCHANGED sc_pc
       ELSE sc_pc' = "attempts" /\ UNCHANGED sc_chunks
    /\ sc_attempt' = 0
    /\ UNCHANGED <<sc_provider, sc_max_retries, sc_target, sc_documents, sc_doc,
                   sc_chunk_results, sc_calls, ck_vars, pl_vars, cl_vars, main_vars>>

\* lines 127-132: the response parses; its score is taken as it is
ApiResponseParsed ==
    /\ sc_pc = "attempts"
    /\ \E score \in ResponseScores :
          sc_chunk_results' = Append(sc_chunk_results,
                                     [score |-> score, reason |-> response_reason])
    /\ sc_calls' = [sc_calls EXCEPT ![sc_doc] = @ + 1]
    /\ sc_chunks' = Tail(sc_chunks)
    /\ sc_pc' = "chunks"
    /\ UNCHANGED <<sc_provider, sc_max_retries, sc_target, sc_documents, sc_doc,
                   sc_attempt, ck_vars, pl_vars, cl_vars, main_vars>>

\* lines 133-136: the response is not JSON or its score is not a number
ApiResponseMalformed ==
    /\ sc_pc = "attempts"
    /\ sc_chunk_results' =
          Append(sc_chunk_results,
                 [score |-> 1, reason |-> "Invalid JSON response from API."])
    /\ sc_calls' = [sc_calls EXCEPT ![sc_doc] = @ + 1]
    /\ sc_chunks' = Tail(sc_chunks)
    /\ sc_pc' = "chunks"
    /\ UNCHANGED <<sc_provider, sc_max_retries, sc_target, sc_documents, sc_doc,
                   sc_attempt, ck_vars, pl_vars, cl_vars, main_vars>>

\* lines 137-141: the call fails; the last attempt records the fallback
ApiError ==
    /\ sc_pc = "attempts"
    /\ sc_calls' = [sc_calls EXCEPT ![sc_doc] = @ + 1]
    /\ IF sc_attempt + 1 = sc_max_retries
       THEN /\ sc_chunk_results' =
                  Append(sc_chunk_results,
                         [score |-> 1,
                          reason |-> "API inference error after multiple retries."])
            /\ sc_chunks' = Tail(sc_chunks)
            /\ sc_pc' = "chunks"
            /\ UNCHANGED sc_attempt
       ELSE /\ sc_attempt' = sc_attempt + 1
            /\ UNCHANGED <<sc_chunk_results, sc_chunks, sc_pc>>
    /\ UNCHANGED <<sc_provider, sc_max_retries, sc_target, sc_documents, sc_doc,
                   ck_vars, pl_vars, cl_vars, main_vars>>

\* lines 171-182: the local model's output holds JSON that parses
LocalResponseParsed ==
    /\ sc_pc = "chunks" /\ sc_provider = "local" /\ sc_chunks # <<>>
    /\ \E score \in ResponseScores :
          sc_chunk_results' = Append(sc_chunk_results,
                                     [score |-> score, reason |-> response_reason])
    /\ sc_calls' = [sc_calls EXCEPT ![sc_doc] = @ + 1]
    /\ sc_chunks' = Tail(sc_chunks)
    /\ UNCHANGED <<sc_pc, sc_provider, sc_max_retries, sc_target, sc_documents,
                   sc_doc, sc_attempt, ck_vars, pl_vars, cl_vars, main_vars>>

\* lines 183-192: no JSON in the output, JSON that does not parse, or an
\* error of the inference
LocalFallback ==
    /\ sc_pc = "chunks" /\ sc_provider = "local" /\ sc_chunks # <<>>
    /\ \E reason \in {"No valid JSON found in model output",
                       "Invalid JSON response", "Inference error."} :
          sc_chunk_results' = Append(sc_chunk_results,
                                     [score |-> 1, reason |-> reason])
    /\ sc_calls' = [sc_calls EXCEPT ![sc_doc] = @ + 1]
    /\ sc_chunks' = Tail(sc_chunks)
    /\ UNCHANGED <<sc_pc, sc_provider, sc_max_retries, sc_target, sc_documents,
                   sc_doc, sc_attempt, ck_vars, pl_vars, cl_vars, main_vars>>

\* lines 143-147 and 194-198: the document gets its lowest unit result
ScoreFinishDocument ==
    /\ sc_pc = "chunks" /\ sc_chunks = <<>>
    /\ sc_documents' = [sc_documents EXCEPT ![sc_doc] =
          IF sc_chunk_results # <<>>
          THEN set_score(@, min_result(sc_chunk_results).score,
                         min_result(sc_chunk_results).reason)
          ELSE set_score(@, 1, "No chunks were processed.")]
    /\ sc_doc' = sc_doc + 1
    /\ sc_pc' = "docs"
    /\ UNCHANGED <<sc_provider, sc_max_retries, sc_target, sc_chunks,
                   sc_chunk_results, sc_attempt, sc_calls,
                   ck_vars, pl_vars, cl_vars, main_vars>>

\* lines 149 and 200: return documents
ScoreReturn ==
    /\ sc_pc = "docs" /\ sc_doc > Len(sc_documents)
    /\ sc_pc' = "done"
    /\ UNCHANGED <<sc_provider, sc_max_retries, sc_target, sc_documents, sc_doc,
                   sc_chunks, sc_chunk_results, sc_attempt, sc_calls,
                   ck_vars, pl_vars, cl_vars, main_vars>>

ScorerNext ==
    \/ ScoreEmptyText \/ ScoreStartDocument
    \/ ApiStartChunk \/ ApiResponseParsed \/ ApiResponseMalformed \/ ApiError
    \/ LocalResponseParsed \/ LocalFallback
    \/ ScoreFinishDocument \/ ScoreReturn

SpecScorer == ScorerInit /\ [][ScorerNext]_vars

\* ------------------------------------------------------------------------
\* Calls of the cleaning.py functions on arbitrary texts

\* the longest of the exhaustively enumerated text arguments
MaxTextLen == 4

\* how often a function is applied to its own result
MaxCalls == 2

Alphabet == {"m", "a", SP, TAB, NL, "<", ">"}

\* some longer texts: runs of three separators, three title lines, a tag
\* inside a tag
LongTexts ==
    { <<"m", NL, NL, NL, "m">>,
      <<"m", SP, TAB, SP, "m">>,
      <<"m", NL, "m", NL, "m", NL, "a">>,
      <<"<", "a", "<", "m", ">", "a", ">">>,
      <<SP, "m", SP, NL, SP, NL, TAB, "a", NL>> }

CleanTexts == UNION {[1..n -> Alphabet] : n \in 0..MaxTextLen} \cup LongTexts

\* title arguments: empty, plain, with trailing and with leading whitespace
Titles == {<<>>, <<"m">>, <<"m", SP>>, <<SP, "m">>}

\* malayalam_ratio_threshold values, in percent
Thresholds == {0, 50, 100}

CleanInit ==
    /\ ChunkIdle
    /\ PipelineIdle
    /\ ScorerIdle
    /\ cl_op = "none"
    /\ cl_text \in CleanTexts
    /\ cl_title = <<>> /\ cl_threshold = 0
    /\ cl_result = <<>> /\ cl_passes = <<>>

\* the argument of the next call: the text, or what the last call returned
cl_arg == IF cl_result = <<>> THEN cl_text ELSE cl_result[Len(cl_result)]

CallRemoveExtraWhitespace ==
    /\ cl_op \in {"none", "remove_extra_whitespace"} /\ Len(cl_result) < MaxCalls
    /\ cl_result' = Append(cl_result, remove_extra_whitespace(cl_arg))
    /\ cl_op' = "remove_extra_whitespace"
    /\ UNCHANGED <<cl_text, cl_title, cl_threshold, cl_passes,
                   ck_vars, pl_vars, main_vars, sc_vars>>

CallRemoveTags ==
    /\ cl_op \in {"none", "remove_tags"} /\ Len(cl_result) < MaxCalls
    /\ cl_result' = Append(cl_result, remove_tags(cl_arg))
    /\ cl_op' = "remove_tags"
    /\ UNCHANGED <<cl_text, cl_title, cl_threshold, cl_passes,
                   ck_vars, pl_vars, main_vars, sc_vars>>

CallStrictMalChars ==
    /\ cl_op \in {"none", "strict_mal_chars"} /\ Len(cl_result) < MaxCalls
    /\ cl_result' = Append(cl_result, strict_mal_chars(cl_arg))
    /\ cl_op' = "strict_mal_chars"
    /\ UNCHANGED <<cl_text, cl_title, cl_threshold, cl_passes,
                   ck_vars, pl_vars, main_vars, sc_vars>>

\* the title is chosen at the first call and held fixed afterwards
CallRemoveRepeatedTitle ==
    /\ cl_op \in {"none", "remove_repeated_title"} /\ Len(cl_result) < MaxCalls
    /\ \E title \in Titles :
          /\ cl_op = "none" \/ title = cl_title
          /\ cl_title' = title
          /\ cl_result' = Append(cl_result, remove_repeated_title(cl_arg, title))
    /\ cl_op' = "remove_repeated_title"
    /\ UNCHANGED <<cl_text, cl_threshold, cl_passes, ck_vars, pl_vars, main_vars, sc_vars>>

CallFilterByRatio ==
    /\ cl_op = "none"
    /\ \E threshold \in Thresholds :
          /\ cl_threshold' = threshold
          /\ cl_passes' = <<filter_by_ratio(cl_text, threshold)>>
    /\ cl_op' = "filter_by_ratio"
    /\ UNCHANGED <<cl_text, cl_title, cl_result, ck_vars, pl_vars, main_vars, sc_vars>>

CleanNext ==
    \/ CallRemoveExtraWhitespace \/ CallRemoveTags \/ CallStrictMalChars
    \/ CallRemoveRepeatedTitle \/ CallFilterByRatio

SpecClean == CleanInit /\ [][CleanNext]_vars

\* ------------------------------------------------------------------------
\* Properties of _semantic_chunking (checked under SpecChunk)

\* the word count of the pending buffer, counted on the text it would join to
buffer_size(buffer) == word_count(join(PARA_SEP, buffer))

word_counts(ps) == [i \in 1..Len(ps) |-> word_count(ps[i])]

result_texts == [i \in 1..Len(ck_result) |-> chunk_text(ck_result[i])]

\* C6: a paragraph that fits target_size on its own joins the pending buffer
\* exactly when buffer size + paragraph size <= target_size (landing on the
\* budget stays); otherwise the buffer is flushed as a chunk and a new buffer
\* starts with the paragraph.  With target_size 10 and paragraphs of 4, 4 and
\* 4 words the result is the two chunks [p1 + p2], [p3].
C6_GreedyParagraphRule ==
    /\ (ck_para # <<>> /\ word_count(ck_para) <= ck_target) =>
          IF buffer_size(ck_prev.cur) + word_count(ck_para) <= ck_target
          THEN /\ ck_st.cur = Append(ck_prev.cur, ck_para)
               /\ ck_st.chunks = ck_prev.chunks
          ELSE /\ ck_st.cur = <<ck_para>>
               /\ ck_prev.cur # <<>>
               /\ ck_st.chunks = Append(ck_prev.chunks, Chunk(PARA_SEP, ck_prev.cur))
    /\ (/\ ck_pc = "done" /\ ck_target = 10
        /\ word_counts(paragraphs_of(ck_text)) = <<4, 4, 4>>) =>
          LET ps == paragraphs_of(ck_text) IN
          result_texts = << ps[1] \o PARA_SEP \o ps[2], ps[3] >>

\* a paragraph landed exactly on the budget and stayed in the current chunk
C6_Witness ==
    /\ ck_para # <<>> /\ ck_prev.cur # <<>>
    /\ word_count(ck_para) <= ck_target
    /\ buffer_size(ck_prev.cur) + word_count(ck_para) = ck_target
    /\ ck_st.cur = Append(ck_prev.cur, ck_para)

\* the units the chunker may not break: a paragraph, or for a paragraph
\* larger than target_size each of its sentences
RECURSIVE units_of(_, _)
units_of(paragraphs, target_size) ==
    IF paragraphs = <<>> THEN <<>>
    ELSE (IF word_count(Head(paragraphs)) > target_size
          THEN sentence_split(Head(paragraphs))
          ELSE <<Head(paragraphs)>>)
         \o units_of(Tail(paragraphs), target_size)

result_units == concat([i \in 1..Len(ck_result) |-> ck_result[i].parts])

\* C7: read in order, the returned chunks hold every non-empty paragraph
\* (for an oversized paragraph every sentence) exactly once and in input
\* order, each whole inside one chunk.
C7_ChunksPartitionInput ==
    ck_pc = "done" =>
        result_units = units_of(paragraphs_of(ck_text), ck_target)

\* an oversized paragraph was split between two paragraph chunks
C7_Witness ==
    /\ ck_pc = "done"
    /\ \E i \in 1..Len(ck_result) : \E j \in 1..Len(ck_result) :
          /\ i + 1 < j
          /\ ck_result[i].sep = PARA_SEP
          /\ ck_result[i + 1].sep = SENT_SEP
          /\ ck_result[j].sep = PARA_SEP

all_sentences(text) ==
    LET ps == paragraphs_of(text) IN
    UNION {{sentence_split(ps[i])[k] : k \in 1..Len(sentence_split(ps[i]))}
              : i \in 1..Len(ps)}

\* C8: every returned chunk has at most target_size words, except a chunk
\* that is exactly one sentence larger than target_size; no chunk is empty.
C8_ChunksBounded ==
    ck_pc = "done" =>
        \A i \in 1..Len(ck_result) :
            LET c == ck_result[i] IN
            /\ word_count(chunk_text(c)) >= 1
            /\ \/ word_count(chunk_text(c)) <= ck_target
               \/ /\ Len(c.parts) = 1
                  /\ c.sep = SENT_SEP
                  /\ c.parts[1] \in all_sentences(ck_text)
                  /\ word_count(c.parts[1]) > ck_target

\* a sentence larger than target_size came out as a chunk of its own, next
\* to a chunk that packs several sentences
C8_Witness ==
    /\ ck_pc = "done"
    /\ \E i \in 1..Len(ck_result) : word_count(chunk_text(ck_result[i])) > ck_target
    /\ \E i \in 1..Len(ck_result) :
          ck_result[i].sep = SENT_SEP /\ Len(ck_result[i].parts) > 1


\* ------------------------------------------------------------------------
\* Properties of cleaning_pipeline (checked under Spec)

InList(list, x) == \E j \in 1..Len(list) : list[j] = x
Occurrences(list, x) == Cardinality({j \in 1..Len(list) : list[j] = x})

\* C1: after a run every chunk record Stage 2 produced is in exactly one of
\* final_documents and discarded_documents, so the two lengths add up to the
\* number of chunk records.
C1_Accounting ==
    pc = "done" =>
        /\ \A k \in 1..Len(chunked_documents) :
              Occurrences(final_documents, chunked_documents[k])
                + Occurrences(discarded_documents, chunked_documents[k]) = 1
        /\ \A k \in 1..Len(chunked_documents) : \A j \in 1..Len(chunked_documents) :
              chunked_documents[k] = chunked_documents[j] => k = j
        /\ Len(final_documents) + Len(discarded_documents) = Len(chunked_documents)

\* a finished run with chunks in both outputs, discarded in Stage 3 and Stage 5
C1_Witness ==
    /\ pc = "done"
    /\ final_documents # <<>>
    /\ \E j \in 1..Len(discarded_documents) :
          heap[discarded_documents[j]].discard_stage = STAGE3
    /\ \E j \in 1..Len(discarded_documents) :
          heap[discarded_documents[j]].discard_stage = STAGE5_DEDUP

\* C2: at the end of a run every discarded record has a non-empty
\* discard_reason and a non-empty discard_stage, and no final record has a
\* discard_reason field.
C2_DiscardProvenance ==
    pc = "done" =>
        /\ \A j \in 1..Len(discarded_documents) :
              LET rec == heap[discarded_documents[j]] IN
              /\ HasField(rec, "discard_reason") /\ rec.discard_reason # ""
              /\ HasField(rec, "discard_stage") /\ rec.discard_stage # ""
        /\ \A j \in 1..Len(final_documents) :
              ~HasField(heap[final_documents[j]], "discard_reason")

\* a finished run that discarded a chunk for its ratio alone and accepted one
C2_Witness ==
    /\ pc = "done"
    /\ final_documents # <<>>
    /\ \E j \in 1..Len(discarded_documents) :
          LET rec == heap[discarded_documents[j]] IN
          /\ ~passes_malayalam_filter(rec.text, config)
          /\ passes_word_count_filter(rec.text, config)

AfterStage3 == pc \in {"stage4", "scoring", "stage5", "done", "saved"}

\* what Stage 3 did with every chunk, the stage label being stage_label
PrefilterOutcome(stage_label) ==
    AfterStage3 =>
        \A k \in 1..Len(chunked_documents) :
            LET chunk == chunked_documents[k]
                rec == heap[chunk]
                ratio_ok == passes_malayalam_filter(rec.text, config)
                count_ok == passes_word_count_filter(rec.text, config)
            IN  /\ InList(chunks_to_score, chunk) <=> (ratio_ok /\ count_ok)
                /\ ~(ratio_ok /\ count_ok) =>
                      /\ InList(discarded_documents, chunk)
                      /\ rec.discard_stage = stage_label
                      /\ (~ratio_ok /\ count_ok) =>
                            rec.discard_reason = "failed malayalam ratio"
                      /\ (ratio_ok /\ ~count_ok) =>
                            rec.discard_reason = "failed word count"
                      /\ (~ratio_ok /\ ~count_ok) =>
                            rec.discard_reason \in
                               {"failed malayalam ratio, failed word count",
                                "failed word count, failed malayalam ratio"}

\* C3 (as claimed): a chunk goes on to scoring iff it passes both predicates;
\* a failing chunk is discarded with discard_stage "Pre-filtering" and a
\* discard_reason naming exactly the failed predicates, joined by ", ".
C3_AsClaimed == PrefilterOutcome("Pre-filtering")

\* C3 (amended): the same, with the discard_stage the code writes,
\* "Stage 3: Pre-filtering".
C3_Prefilter == PrefilterOutcome("Stage 3: Pre-filtering")

\* Stage 3 is over and has discarded a chunk that failed both predicates and
\* passed another chunk on
C3_Witness ==
    /\ AfterStage3
    /\ chunks_to_score # <<>>
    /\ \E j \in 1..Len(discarded_documents) :
          LET rec == heap[discarded_documents[j]] IN
          /\ ~passes_malayalam_filter(rec.text, config)
          /\ ~passes_word_count_filter(rec.text, config)

DiscardedForScore(doc) ==
    /\ InList(discarded_documents, doc)
    /\ heap[doc].discard_stage = "Stage 5: LLM score filtering"

\* C4: in Stage 5 a chunk with a non-null llm_score is discarded for score
\* iff llm_score < score_threshold, with the reason "failed llm score (<score>)"
\* holding its score; a chunk with llm_score = score_threshold is not, and a
\* chunk with a null llm_score never is.
C4_ScoreThreshold ==
    pc = "done" =>
        \A j \in 1..Len(scored_documents) :
            LET doc == scored_documents[j]
                llm_score == get_llm_score(heap[doc])
            IN  /\ llm_score = None => ~DiscardedForScore(doc)
                /\ llm_score # None =>
                      /\ DiscardedForScore(doc) <=> llm_score[1] < config.score_threshold
                      /\ llm_score[1] = config.score_threshold => ~DiscardedForScore(doc)
                      /\ llm_score[1] = config.score_threshold - 1 =>
                            /\ DiscardedForScore(doc)
                            /\ heap[doc].discard_reason =
                                  "failed llm score (" \o ToString(llm_score[1]) \o ")"
                      /\ DiscardedForScore(doc) =>
                            heap[doc].discard_reason =
                                  "failed llm score (" \o ToString(llm_score[1]) \o ")"

\* a finished run with a chunk scored exactly score_threshold in final and a
\* chunk scored score_threshold - 1 discarded for it
C4_Witness ==
    /\ pc = "done"
    /\ \E j \in 1..Len(final_documents) :
          get_llm_score(heap[final_documents[j]]) = Some(config.score_threshold)
    /\ \E j \in 1..Len(discarded_documents) :
          /\ get_llm_score(heap[discarded_documents[j]]) = Some(config.score_threshold - 1)
          /\ heap[discarded_documents[j]].discard_reason = "failed llm score (4)"

\* the value of a string of decimal digits
DigitValue(c) == CHOOSE d \in 0..9 : ToString(d) = c
RECURSIVE int_of(_)
int_of(ds) == IF ds = <<>> THEN 0
              ELSE 10 * int_of(SubSeq(ds, 1, Len(ds) - 1)) + DigitValue(ds[Len(ds)])

\* the chunks that reach the deduplication check of Stage 5
ReachesDedup(doc) ==
    ~(get_llm_score(heap[doc]) # None
      /\ get_llm_score(heap[doc])[1] < config.score_threshold)

\* C5: among the chunks that reach the deduplication check, for each
\* distinct text exactly the earliest one (document order, then chunk order)
\* is accepted into final, and every later chunk with the same text is
\* discarded with discard_reason "duplicate content".
C5_Deduplication ==
    pc = "done" =>
        /\ \A j \in 1..Len(scored_documents) : \A k \in 1..Len(scored_documents) :
              j < k =>
                LET a == heap[scored_documents[j]]
                    b == heap[scored_documents[k]]
                IN  \/ int_of(a.doc_id) < int_of(b.doc_id)
                    \/ (a.doc_id = b.doc_id /\ a.chunk_id < b.chunk_id)
        /\ \A k \in 1..Len(scored_documents) :
              LET doc == scored_documents[k]
                  earlier == \E j \in 1..(k - 1) :
                                /\ ReachesDedup(scored_documents[j])
                                /\ heap[scored_documents[j]].text = heap[doc].text
              IN  ReachesDedup(doc) =>
                     IF earlier
                     THEN /\ InList(discarded_documents, doc)
                          /\ ~InList(final_documents, doc)
                          /\ heap[doc].discard_reason = "duplicate content"
                     ELSE /\ InList(final_documents, doc)
                          /\ ~InList(discarded_documents, doc)

\* a finished run in which two chunks with the same text reached the check:
\* one is in final, the other was discarded as a duplicate
C5_Witness ==
    /\ pc = "done"
    /\ \E j \in 1..Len(final_documents) : \E k \in 1..Len(discarded_documents) :
          /\ heap[final_documents[j]].text = heap[discarded_documents[k]].text
          /\ heap[discarded_documents[k]].discard_reason = "duplicate content"

AfterStage2 == pc \in {"stage3", "stage4", "scoring", "stage5", "done", "saved"}

\* C9: with chunking disabled chunk_documents yields one chunk record per
\* input document, in input order, with total_chunks = 1, chunk_id = 1 and
\* the document's normalized text unchanged.
C9_ChunkingDisabled ==
    (AfterStage2 /\ ~config.chunking_enabled) =>
        /\ Len(chunked_documents) = Len(documents)
        /\ \A k \in 1..Len(documents) :
              /\ chunked_documents[k] = documents[k]
              /\ heap[chunked_documents[k]].total_chunks = 1
              /\ heap[chunked_documents[k]].chunk_id = 1
              /\ heap[chunked_documents[k]].text = normalized_texts[k]
              /\ int_of(heap[chunked_documents[k]].doc_id) = k

\* chunking is disabled and Stage 2 returned two documents, one of them with
\* a text the chunker would have cut in two
C9_Witness ==
    /\ pc = "stage3" /\ ~config.chunking_enabled
    /\ Len(chunked_documents) = 2
    /\ \E k \in 1..Len(documents) :
          Len(_semantic_chunking(heap[documents[k]].text, config.target_size)) > 1

\* the records of chunked_documents made from the k-th input document, in the
\* order of the list
records_of(k) == SelectSeq(chunked_documents, LAMBDA c : int_of(heap[c].doc_id) = k)

\* the number of chunks Stage 2 makes from the k-th document
chunks_produced(k) ==
    IF config.chunking_enabled
    THEN Len(_semantic_chunking(normalized_texts[k], config.target_size))
    ELSE 1

\* C11: for every parent document the chunk records Stage 2 emits with its
\* doc_id have chunk_id 1, 2, ..., n in emission order and total_chunks = n,
\* n being the number of chunks produced from the document; the flat list
\* has the documents in input order and the chunks of a document in chunk_id
\* order.
C11_ChunkNumbering ==
    pc = "stage3" =>
        /\ \A k \in 1..Len(documents) :
              LET recs == records_of(k) IN
              /\ Len(recs) = chunks_produced(k)
              /\ \A j \in 1..Len(recs) :
                    /\ heap[recs[j]].chunk_id = j
                    /\ heap[recs[j]].total_chunks = Len(recs)
        /\ \A i \in 1..Len(chunked_documents) : \A j \in 1..Len(chunked_documents) :
              i < j =>
                LET a == heap[chunked_documents[i]]
                    b == heap[chunked_documents[j]]
                IN  \/ int_of(a.doc_id) < int_of(b.doc_id)
                    \/ (a.doc_id = b.doc_id /\ a.chunk_id < b.chunk_id)
        /\ \A i \in 1..Len(chunked_documents) :
              int_of(heap[chunked_documents[i]].doc_id) \in 1..Len(documents)

\* Stage 2 has cut the first of two documents into two chunks and kept the
\* second whole
C11_Witness ==
    /\ pc = "stage3" /\ config.chunking_enabled
    /\ Len(documents) = 2
    /\ Len(chunked_documents) = 3
    /\ heap[chunked_documents[2]].chunk_id = 2
    /\ heap[chunked_documents[2]].total_chunks = 2
    /\ heap[chunked_documents[3]].chunk_id = 1
    /\ heap[chunked_documents[3]].total_chunks = 1

\* the text holds two consecutive newlines
has_blank_line(text) == find_sep(text, PARA_SEP) # 0

\* the chunks of the k-th document are joined from sentences only
sentence_packed(k) ==
    LET cs == semantic_chunks(normalized_texts[k], config.target_size)
        recs == records_of(k)
    IN  /\ Len(recs) = Len(cs)
        /\ \A i \in 1..Len(cs) :
              /\ cs[i].sep = SENT_SEP
              /\ heap[recs[i]].text = chunk_text(cs[i])

\* C22: no text that reaches Stage 2 holds two consecutive newlines, so the
\* chunker finds at most one paragraph in a document, no chunk joins two
\* paragraphs, and a document becomes one chunk that is its whole text or a
\* sequence of chunks packed from sentences.
C22_SingleParagraph ==
    /\ pc = "stage2" =>
          \A k \in 1..Len(documents) :
              /\ ~has_blank_line(heap[documents[k]].text)
              /\ Len(paragraphs_of(heap[documents[k]].text)) <= 1
    /\ (pc = "stage3" /\ config.chunking_enabled) =>
          \A k \in 1..Len(documents) :
              LET cs == semantic_chunks(normalized_texts[k], config.target_size)
                  recs == records_of(k)
              IN  /\ \A i \in 1..Len(cs) :
                        ~(cs[i].sep = PARA_SEP /\ Len(cs[i].parts) > 1)
                  /\ \/ recs = <<>>
                     \/ /\ Len(recs) = 1
                        /\ heap[recs[1]].text = normalized_texts[k]
                     \/ sentence_packed(k)

\* a document that came with a blank line has been cut into two chunks
C22_Witness ==
    /\ pc = "stage3" /\ config.chunking_enabled
    /\ \E k \in 1..Len(documents) :
          /\ has_blank_line(input_documents[k].text)
          /\ Len(records_of(k)) = 2
          /\ sentence_packed(k)

\* Stage 5 is running or has run
InStage5 == pc \in {"stage5", "done", "saved"}

\* the chunk was discarded without reaching the deduplication check
discarded_before_dedup(doc) ==
    /\ InList(discarded_documents, doc)
    /\ heap[doc].discard_stage \in {STAGE3, STAGE5_SCORE}

\* C23: during Stage 5 seen_hashes is the set of the hashes of the texts of
\* the chunks in final_documents, these texts differ pairwise and there are
\* as many hashes as final chunks; a chunk discarded in Stage 3 or for its
\* score leaves no hash, so a later chunk with its text that passes the
\* score check is accepted; before Stage 5 seen_hashes is empty.
C23_SeenHashes ==
    /\ ~InStage5 => seen_hashes = {}
    /\ InStage5 =>
          /\ seen_hashes = {text_hash(heap[final_documents[j]].text) :
                               j \in 1..Len(final_documents)}
          /\ \A i \in 1..Len(final_documents) : \A j \in 1..Len(final_documents) :
                i # j => heap[final_documents[i]].text # heap[final_documents[j]].text
          /\ Cardinality(seen_hashes) = Len(final_documents)
          /\ \A k \in 1..Len(scored_documents) :
                LET doc == scored_documents[k] IN
                (/\ (k < pos \/ pc # "stage5")
                 /\ ReachesDedup(doc)
                 /\ \A j \in 1..Len(chunked_documents) :
                       LET other == chunked_documents[j] IN
                       (/\ heap[other].text = heap[doc].text
                        /\ \/ int_of(heap[other].doc_id) < int_of(heap[doc].doc_id)
                           \/ /\ heap[other].doc_id = heap[doc].doc_id
                              /\ heap[other].chunk_id < heap[doc].chunk_id)
                       => discarded_before_dedup(other))
                => InList(final_documents, doc)

\* Stage 5 has discarded a chunk for its score and then accepted a later
\* chunk with the same text
C23_Witness ==
    /\ InStage5
    /\ \E i \in 1..Len(discarded_documents) : \E j \in 1..Len(final_documents) :
          LET a == heap[discarded_documents[i]]
              b == heap[final_documents[j]]
          IN  /\ a.discard_stage = STAGE5_SCORE
              /\ a.text = b.text
              /\ \/ int_of(a.doc_id) < int_of(b.doc_id)
                 \/ (a.doc_id = b.doc_id /\ a.chunk_id < b.chunk_id)

\* the k-th input document has a record in one of the two returned lists
Accounted(k) ==
    \/ \E j \in 1..Len(final_documents) : int_of(heap[final_documents[j]].doc_id) = k
    \/ \E j \in 1..Len(discarded_documents) :
          int_of(heap[discarded_documents[j]].doc_id) = k

\* C12: at the end of a run every input document, one with an empty text or
\* a text that normalization empties included, has at least one chunk record
\* with its doc_id in final_documents or discarded_documents, with chunking
\* enabled as well as disabled.
C12_EveryDocumentAccounted ==
    pc = "done" => \A k \in 1..Len(documents) : Accounted(k)

AfterStage4 == pc \in {"stage5", "done", "saved"}

\* C17: when scoring is enabled, after Stage 4 every chunk that passed
\* pre-filtering carries an llm_score and an llm_reason, whatever the
\* provider setting and also when the scorer cannot be initialised; no
\* surviving chunk reaches Stage 5 without a score.  (The scorer's loop
\* visits a chunk once, so a score that is assigned is assigned once.)
C17_EveryChunkScored ==
    (AfterStage4 /\ config.llm_enabled) =>
        /\ scored_documents = chunks_to_score
        /\ \A j \in 1..Len(chunks_to_score) :
              LET rec == heap[chunks_to_score[j]] IN
              /\ HasField(rec, "llm_score") /\ rec.llm_score # None
              /\ HasField(rec, "llm_reason")

\* the record came into the run with an llm_score field and is itself the
\* chunk record (chunking disabled)
CarriedScore(chunk) ==
    /\ ~config.chunking_enabled
    /\ HasField(input_documents[chunk], "llm_score")

\* C18 (as claimed): when scoring is disabled, after Stage 4 every chunk
\* that passed pre-filtering has llm_score = null and llm_reason =
\* "scoring disabled", also a record that carried an llm_score on input, and
\* no chunk is discarded for score in Stage 5.
C18_AsClaimed ==
    (AfterStage4 /\ ~config.llm_enabled) =>
        \A j \in 1..Len(chunks_to_score) :
            LET chunk == chunks_to_score[j] IN
            /\ heap[chunk].llm_score = None
            /\ heap[chunk].llm_reason = "scoring disabled"
            /\ ~DiscardedForScore(chunk)

\* C18 (amended): when scoring is disabled, after Stage 4 every chunk that
\* passed pre-filtering and carried no llm_score has llm_score = null and
\* llm_reason = "LLM scoring disabled"; a record that carried an llm_score
\* on input keeps its score and reason, and it alone can be discarded for
\* score in Stage 5, which happens iff its score is below score_threshold.
C18_ScoringDisabled ==
    (AfterStage4 /\ ~config.llm_enabled) =>
        \A j \in 1..Len(chunks_to_score) :
            LET chunk == chunks_to_score[j] IN
            /\ IF CarriedScore(chunk)
               THEN /\ heap[chunk].llm_score = input_documents[chunk].llm_score
                    /\ heap[chunk].llm_reason = input_documents[chunk].llm_reason
               ELSE /\ heap[chunk].llm_score = None
                    /\ heap[chunk].llm_reason = "LLM scoring disabled"
            /\ pc \in {"done", "saved"} =>
                  (DiscardedForScore(chunk) <=>
                      /\ CarriedScore(chunk)
                      /\ heap[chunk].llm_score # None
                      /\ heap[chunk].llm_score[1] < config.score_threshold)

\* a finished run with scoring disabled: one chunk got the null score and
\* was accepted, another kept the low score it came with and was discarded
\* for it
C18_Witness ==
    /\ pc = "done" /\ ~config.llm_enabled
    /\ \E j \in 1..Len(final_documents) :
          /\ heap[final_documents[j]].llm_score = None
          /\ heap[final_documents[j]].llm_reason = "LLM scoring disabled"
    /\ \E j \in 1..Len(discarded_documents) :
          /\ CarriedScore(discarded_documents[j])
          /\ DiscardedForScore(discarded_documents[j])

\* C20: the collection main hands to save_to_jsonl is the final list the
\* pipeline returned, so the output file has exactly one line per accepted
\* chunk, the JSON object of that chunk, in the order of final_documents,
\* and no line for a discarded chunk.
C20_OutputIsFinal ==
    pc = "saved" =>
        /\ Len(output_lines) = Len(final_documents)
        /\ \A j \in 1..Len(output_lines) :
              /\ output_lines[j].json = "object"
              /\ output_lines[j].members = heap[final_documents[j]]


\* ------------------------------------------------------------------------
\* Properties of the document numbering (checked under SpecNumbering)

\* the number of decimal digits of n
NumDigits(n) == CHOOSE w \in 1..6 : (n = 0 /\ w = 1) \/ (10^(w - 1) <= n /\ n < 10^w)

\* a < b as Python compares strings of digits
LexLess(a, b) ==
    \/ \E k \in 1..Len(a) :
          /\ k <= Len(b)
          /\ SubSeq(a, 1, k - 1) = SubSeq(b, 1, k - 1)
          /\ DigitValue(a[k]) < DigitValue(b[k])
    \/ (Len(a) < Len(b) /\ a = SubSeq(b, 1, Len(a)))

\* C10: with chunking enabled and with chunking disabled, doc_id is the
\* 1-based input position zero-padded to the number of digits of the document
\* count: all doc_ids of a run are equally long, distinct documents have
\* distinct doc_ids, and the doc_ids sort lexicographically in input order.
C10_DocIds ==
    pc = "stage3" =>
        LET n == Len(documents)
            id(k) == heap[chunked_documents[k]].doc_id
        IN  /\ Len(chunked_documents) = n
            /\ \A k \in 1..n :
                  /\ Len(id(k)) = NumDigits(n)
                  /\ \A d \in 1..Len(id(k)) : IsDigit(id(k)[d])
                  /\ int_of(id(k)) = k
            /\ \A j \in 1..n : \A k \in 1..n :
                  j < k => (id(j) # id(k) /\ LexLess(id(j), id(k)))

\* chunk_documents numbered ten or more documents with chunking enabled
C10_Witness ==
    /\ pc = "stage3"
    /\ config.chunking_enabled
    /\ Len(documents) >= 10
    /\ heap[chunked_documents[2]].doc_id = <<"0", "2">>

\* ------------------------------------------------------------------------
\* Properties of the cleaning functions (checked under SpecClean)

\* C13: remove_extra_whitespace is idempotent: applied to its own result it
\* returns that result, f(f(x)) = f(x) for every text x; on the empty text
\* it returns the empty text.
C13_WhitespaceIdempotent ==
    cl_op = "remove_extra_whitespace" =>
        /\ \A i \in 2..Len(cl_result) : cl_result[i] = cl_result[1]
        /\ cl_text = <<>> => cl_result[1] = <<>>

\* remove_extra_whitespace was applied twice to a text with a run of three
\* newlines, which the first call changed
C13_Witness ==
    /\ cl_op = "remove_extra_whitespace"
    /\ Len(cl_result) >= 2
    /\ cl_text = <<"m", NL, NL, NL, "m">>
    /\ cl_result[1] = <<"m", NL, "m">>

\* the part of t before its first newline (all of t when it has none)
FirstLine(t) ==
    LET ends == {n \in 0..Len(t) : /\ \A i \in 1..n : t[i] # NL
                                   /\ (n = Len(t) \/ t[n + 1] = NL)}
    IN  SubSeq(t, 1, CHOOSE n \in ends : TRUE)

\* t without its first line and the newline that ends it
AfterFirstLine(t) == SubSeq(t, Len(FirstLine(t)) + 2, Len(t))

IdempotentCalls == \A i \in 2..Len(cl_result) : cl_result[i] = cl_result[1]

\* C14 (as claimed): remove_tags, remove_repeated_title with the title held
\* fixed and the strict character filter each return their own output
\* unchanged, for every text, and return the empty text on the empty text.
C14_AsClaimed ==
    cl_op \in {"remove_tags", "remove_repeated_title", "strict_mal_chars"} =>
        /\ IdempotentCalls
        /\ cl_text = <<>> => cl_result[1] = <<>>

\* C14 (amended): remove_tags and the strict character filter return their
\* own output unchanged; remove_repeated_title returns its own output
\* unchanged exactly when that output is empty or its trimmed first line
\* differs from the title, and otherwise removes a further line; all three
\* return the empty text on the empty text.
C14_Idempotence ==
    /\ cl_op \in {"remove_tags", "strict_mal_chars"} => IdempotentCalls
    /\ cl_op = "remove_repeated_title" =>
          \A i \in 1..(Len(cl_result) - 1) :
              IF cl_result[i] = <<>> \/ strip(FirstLine(cl_result[i])) # cl_title
              THEN cl_result[i + 1] = cl_result[i]
              ELSE /\ cl_result[i + 1] = AfterFirstLine(cl_result[i])
                   /\ cl_result[i + 1] # cl_result[i]
    /\ cl_op \in {"remove_tags", "remove_repeated_title", "strict_mal_chars"} =>
          (cl_text = <<>> => cl_result[1] = <<>>)

\* remove_repeated_title was applied twice to a text whose first two lines
\* both equal the title, and the second call removed the second line
C14_Witness ==
    /\ cl_op = "remove_repeated_title"
    /\ cl_title = <<"m">>
    /\ Len(cl_result) >= 2
    /\ cl_text = <<"m", NL, "m", NL, "m", NL, "a">>
    /\ cl_result[1] = <<"m", NL, "m", NL, "a">>
    /\ cl_result[2] = <<"m", NL, "a">>

\* C15: remove_repeated_title(text, title) drops the first line of text, up
\* to and including the first newline, if and only if the trimmed first line
\* equals the trimmed title, and otherwise returns text unchanged, also for
\* a title with leading or trailing whitespace and for the empty title.
C15_TitleRemoval ==
    (cl_op = "remove_repeated_title" /\ cl_result # <<>>) =>
        cl_result[1] = IF strip(FirstLine(cl_text)) = strip(cl_title)
                       THEN AfterFirstLine(cl_text)
                       ELSE cl_text

\* C16: the ratio predicate returns true if and only if the text has at
\* least one non-whitespace character and in-language characters divided by
\* non-whitespace characters is at least the threshold; it is false for the
\* empty text and for whitespace-only text at every threshold, 0 included,
\* and true at threshold 0 for every text with a non-whitespace character.
C16_RatioPredicate ==
    cl_op = "filter_by_ratio" =>
        LET non_whitespace == Len(SelectSeq(cl_text, LAMBDA c : c \notin {SP, NL, TAB}))
            in_language == Len(SelectSeq(cl_text, LAMBDA c : c = "m"))
            passes == cl_passes[1]
        IN  /\ passes <=> /\ non_whitespace >= 1
                          /\ in_language * 100 >= cl_threshold * non_whitespace
            /\ non_whitespace = 0 => ~passes
            /\ (cl_threshold = 0 /\ non_whitespace >= 1) => passes

\* the predicate was called on a whitespace-only text at threshold 0 and
\* returned false
C16_Witness ==
    /\ cl_op = "filter_by_ratio"
    /\ cl_text = <<SP, NL, TAB>>
    /\ cl_threshold = 0
    /\ cl_passes = <<FALSE>>

\* ------------------------------------------------------------------------
\* Properties of the scorer (checked under SpecScorer)

\* the documents the scorer has finished
scored_so_far == 1..(sc_doc - 1)

\* C19: every llm_score the scorer assigns is an integer from 1 to 10,
\* whatever score the response of the model holds, and a document whose text
\* is empty or blank gets the score 1 with the reason "Empty text content"
\* without a call of the model.
C19_ScoreRange ==
    \A k \in scored_so_far :
        /\ HasField(sc_documents[k], "llm_score")
        /\ sc_documents[k].llm_score # None
        /\ sc_documents[k].llm_score[1] \in 1..10
        /\ strip(sc_documents[k].text) = <<>> =>
              /\ sc_documents[k].llm_score = Some(1)
              /\ sc_documents[k].llm_reason = "Empty text content"
              /\ sc_calls[k] = 0

\* the reasons of the fallback results of the API scorer
ApiFallbackReasons ==
    {"Invalid JSON response from API.",
     "API inference error after multiple retries."}

\* the scorer is inside the loop over the units of document sc_doc
InUnitLoop == sc_pc \in {"chunks", "attempts"}

\* C21: in the API scorer every unit sees at most max_retries calls of the
\* model, exactly one result is recorded for every unit (a parsed response
\* or the fallback score 1 with its reason), and the loop goes on to the
\* remaining units and documents, which all end with a score.
C21_BoundedRetry ==
    sc_provider = "api" =>
        /\ sc_pc = "attempts" => sc_attempt + 1 <= sc_max_retries
        /\ InUnitLoop => Len(sc_chunk_results) = unit_index - 1
        /\ InUnitLoop =>
              \A i \in 1..Len(sc_chunk_results) :
                  \/ sc_chunk_results[i].score \in ResponseScores
                  \/ /\ sc_chunk_results[i].score = 1
                     /\ sc_chunk_results[i].reason \in ApiFallbackReasons
        /\ sc_pc = "done" =>
              \A k \in 1..Len(sc_documents) :
                  HasField(sc_documents[k], "llm_score")

\* the documents cut into units so far
unit_scored == {k \in scored_so_far : strip(sc_documents[k].text) # <<>>}

\* the last of them: sc_chunk_results holds the results of its units
last_unit_scored == CHOOSE k \in unit_scored : \A j \in unit_scored : j <= k

\* C24: a chunk cut into scoring units gets the lowest of the unit scores and
\* the reason of the first unit with that score; without any unit result it
\* gets the score 1; so no unit has a score below the chunk's.
C24_MinimumOfUnits ==
    (sc_pc \in {"docs", "done"} /\ unit_scored # {}) =>
        LET doc == sc_documents[last_unit_scored] IN
        IF sc_chunk_results = <<>>
        THEN doc.llm_score = Some(1)
        ELSE /\ \A i \in 1..Len(sc_chunk_results) :
                   doc.llm_score[1] <= sc_chunk_results[i].score
             /\ \E i \in 1..Len(sc_chunk_results) :
                   /\ doc.llm_score = Some(sc_chunk_results[i].score)
                   /\ doc.llm_reason = sc_chunk_results[i].reason
                   /\ \A j \in 1..(i - 1) :
                         sc_chunk_results[j].score > sc_chunk_results[i].score

\* a chunk of two units with the same score has the reason of the first
C24_Witness ==
    /\ sc_pc \in {"docs", "done"} /\ unit_scored # {}
    /\ Len(sc_chunk_results) = 2
    /\ sc_chunk_results[1].score = sc_chunk_results[2].score
    /\ sc_chunk_results[1].reason # sc_chunk_results[2].reason
    /\ sc_documents[last_unit_scored].llm_reason = sc_chunk_results[1].reason

============================================================================
